---- MODULE Spec2Model ----
(***************************************************************************)
(* Model of src/src/OpenColorIO/GpuShaderDesc.cpp: GpuShaderCreator,       *)
(* GpuShaderCreator::Impl, MetalClassWrappingInterface and                 *)
(* GpuShaderDesc::clone.                                                   *)
(*                                                                         *)
(* Text is a sequence of chunks.  The chunk "_" is one underscore          *)
(* character; every other chunk stands for a piece of text that holds no   *)
(* underscore of interest and is never split.  std::string operations      *)
(* (+=, empty, clear) become \o, = <<>>, <<>>.                             *)
(***************************************************************************)
EXTENDS Integers, Sequences, FiniteSets, TLC

VARIABLES desc, phase, heap, crashed, nOps, budget, last, ghost

\* The threads of a concurrent run: where each thread stands in its call, who
\* holds each descriptor's m_cacheIDMutex, the member access just made, and
\* the configuration as the last completed mutator left it.
VARIABLES threads, mutex, access, committed

threadVars == <<threads, mutex, access, committed>>

vars == <<desc, phase, heap, crashed, nOps, budget, last, ghost, threads, mutex, access, committed>>

(***************************************************************************)
(* Bounds of the model.                                                    *)
(***************************************************************************)
\* Number of calls in one run of the program.
MaxOps == 3

\* Number of calls in one run that only sets the language, registers textures
\* and assembles the shader text.
MaxTextureOps == 5

\* Number of calls the threads of a concurrent run begin, all together.
MaxThreadOps == 3

(***************************************************************************)
(* The descriptors of a run: the constructed one and its clone.            *)
(***************************************************************************)
Ids == {"orig", "copy"}

GLSL == "GPU_LANGUAGE_GLSL_1_2"
METAL == "GPU_LANGUAGE_MSL_METAL"
OSL == "LANGUAGE_OSL_1"

Languages == {GLSL, METAL, OSL}

\* const char * arguments: a null pointer or a pointer to a string.
NullPtr == [null |-> TRUE, str |-> <<>>]

CStr(s) == [null |-> FALSE, str |-> s]

\* Inputs of the calls.
UidInputs == {NullPtr, CStr(<<"u">>)}

NameInputs == {<<"a", "_", "_", "b">>, <<"_", "_", "_">>}

FragInputs == {NullPtr, CStr(<<>>), CStr(<<"x">>), CStr(<<"y">>)}

PropTypes == {"EXPOSURE", "GAMMA"}

PropInputs == {[type |-> "EXPOSURE", obj |-> "e1"], [type |-> "EXPOSURE", obj |-> "e2"],
               [type |-> "GAMMA", obj |-> "g1"]}

Tex3DInputs == {"lut3"}

TexInputs == {[name |-> "lut1", height |-> 1], [name |-> "lut2", height |-> 2]}

\* What a build can do once it runs into undefined behaviour: stop the
\* process, or carry on with the faulting access having had no effect.
UBOutcomes == {"abort", "skip"}

\* The threads of a concurrent run: two call getCacheID, one calls the
\* mutators and clone.
Readers == {"reader1", "reader2"}

Threads == Readers \cup {"writer"}

NoThread == "none"

\* A thread outside any call.  A thread in a call stands at pc of call op with
\* argument arg; k counts the members handled so far, os is the local
\* ostringstream of getCacheID, ret the string its last getCacheID returned
\* and at the number of mutators completed when it returned.
IdleThread ==
    [pc |-> "idle", op |-> "none", arg |-> "none", k |-> 0, os |-> <<>>,
     ret |-> <<>>, at |-> 0]

NoAccess ==
    [thread |-> NoThread, id |-> "none", member |-> "none", kind |-> "none",
     locked |-> FALSE]

(***************************************************************************)
(* Text helpers.                                                           *)
(***************************************************************************)
\* (p && *p) ? p : ""
TextOrEmpty(p) == IF (~p.null) /\ p.str # <<>> THEN p.str ELSE <<>>

\* StringUtils::Replace(subject, search, replace): one left-to-right pass;
\* the scan resumes after the text just written.
RECURSIVE Replace(_, _, _)
Replace(subject, search, replace) ==
    IF search = <<>> \/ Len(subject) < Len(search)
    THEN subject
    ELSE IF SubSeq(subject, 1, Len(search)) = search
         THEN replace \o Replace(SubSeq(subject, Len(search) + 1, Len(subject)), search, replace)
         ELSE <<Head(subject)>> \o Replace(Tail(subject), search, replace)

\* Whether text s holds the chunk sequence t.
Contains(s, t) ==
    \E i \in 1..(Len(s) - Len(t) + 1) : SubSeq(s, i, i + Len(t) - 1) = t

\* Number of positions of s holding chunk c.
Count(s, c) == Cardinality({i \in 1..Len(s) : s[i] = c})

GpuLanguageToString(lang) ==
    CASE lang = GLSL -> "glsl_1.2"
      [] lang = METAL -> "msl_2"
      [] lang = OSL -> "osl_1"

\* The chunks shader text is made of, used to number them for hashing.
Alphabet ==
    <<"x", "y", "a", "b", "_", "u", "OCIOMain", "Display", "ocio", "outColor",
      "// Declaration of all variables", "// Declaration of all helper methods",
      "// Declaration of class wrapper", "// close class wrapper",
      "/* All the includes */", "/* All the generic helper methods */",
      "/* The shader implementation */", "shader OSL_",
      "(color4 inColor = {color(0), 1}, output color4 outColor = {color(0), 1})", "{",
      "outColor = ", "(inColor);", "}",
      "struct OCIO { OCIO(", ") {} ", "}; OCIO(", ").", "(inPixel);",
      "lut1", "lut2", "lut3", "1", "2", "3">>

ChunkCode(c) == CHOOSE i \in 1..Len(Alphabet) : Alphabet[i] = c

\* CacheIDHash(text, length): a deterministic digest of the bytes, as text.
RECURSIVE HashFold(_)
HashFold(s) ==
    IF s = <<>> THEN 5381
    ELSE (HashFold(SubSeq(s, 1, Len(s) - 1)) * 33 + ChunkCode(s[Len(s)])) % 65536

CacheIDHash(s) == <<"#" \o ToString(HashFold(s))>>

(***************************************************************************)
(* GpuShaderCreator::Impl and MetalClassWrappingInterface.                 *)
(***************************************************************************)
\* Impl::Impl() with the default member initialisers, plus the (empty)
\* texture lists of the GpuShaderDesc that owns it.
NewImpl ==
    [m_uid |-> <<>>,
     m_language |-> GLSL,
     m_functionName |-> <<"OCIOMain">>,
     m_resourcePrefix |-> <<"ocio">>,
     m_pixelName |-> <<"outColor">>,
     m_numResources |-> 0,
     m_cacheID |-> <<>>,
     m_declarations |-> <<>>,
     m_helperMethods |-> <<>>,
     m_functionHeader |-> <<>>,
     m_functionBody |-> <<>>,
     m_functionFooter |-> <<>>,
     m_shaderCode |-> <<>>,
     m_shaderCodeID |-> <<>>,
     m_dynamicProperties |-> <<>>,
     m_classWrappingInterface |-> 0,
     textures3D |-> <<>>,
     textures |-> <<>>]

\* A default-constructed MetalClassWrappingInterface on the heap.
NewWrapper ==
    [live |-> TRUE,
     m_classWrapHeader |-> <<>>,
     m_classWrapFooter |-> <<>>,
     m_classWrapFunctionParams |-> <<>>]

\* The storage of a wrapper after delete.
FreedWrapper ==
    [live |-> FALSE,
     m_classWrapHeader |-> <<>>,
     m_classWrapFooter |-> <<>>,
     m_classWrapFunctionParams |-> <<>>]

\* What the calls on a descriptor have been: the indices getNextResourceIndex
\* returned, the properties addDynamicProperty accepted, the fragments appended
\* to each buffer, the number of finalize calls, and the resource counter the
\* descriptor began with.
NewGhost ==
    [base |-> 0,
     issued |-> <<>>,
     registered |-> <<>>,
     appended |-> [m_declarations |-> <<>>, m_helperMethods |-> <<>>,
                   m_functionHeader |-> <<>>, m_functionBody |-> <<>>,
                   m_functionFooter |-> <<>>],
     nFinalize |-> 0]

Ret(ok, val) == [ok |-> ok, val |-> val]

Void == Ret(TRUE, "void")

\* The state after CreateShaderDesc(), for a run of at most calls calls.
Constructed(calls) ==
    /\ desc = [i \in Ids |-> NewImpl]
    /\ phase = [i \in Ids |-> IF i = "orig" THEN "live" ELSE "none"]
    /\ heap = <<>>
    /\ crashed = FALSE
    /\ nOps = 0
    /\ budget = calls
    /\ threads = [t \in Threads |-> IdleThread]
    /\ mutex = [i \in Ids |-> NoThread]
    /\ access = NoAccess
    /\ committed = [impl |-> NewImpl, n |-> 0]
    /\ last = [op |-> "construct", id |-> "orig", arg |-> "none", ret |-> Void,
               pre |-> <<>>, same |-> TRUE]
    /\ ghost = [i \in Ids |-> NewGhost]

Init == Constructed(MaxOps)

\* A call on descriptor id can be made.
Callable(id) == (~crashed) /\ phase[id] = "live" /\ nOps < budget

\* The record of the call just made: the operation, the descriptor, the
\* argument and the result, the m_cacheID the descriptor had when the call
\* began, and whether the call left every other member as it was.
Call(op, id, arg, ret, same) ==
    [op |-> op, id |-> id, arg |-> arg, ret |-> ret,
     pre |-> desc[id].m_cacheID, same |-> same]

\* Call op on descriptor id returns ret, leaving the Impl impl and the heap hp.
ReturnsHeap(id, op, arg, impl, ret, hp) ==
    /\ desc' = [desc EXCEPT ![id] = impl]
    /\ heap' = hp
    /\ last' = Call(op, id, arg, ret, [impl EXCEPT !.m_cacheID = desc[id].m_cacheID] = desc[id])
    /\ nOps' = nOps + 1
    /\ UNCHANGED <<phase, crashed, budget, threadVars>>

\* The same for a call that leaves the heap alone.
Returns(id, op, arg, impl, ret) == ReturnsHeap(id, op, arg, impl, ret, heap)

\* A const call on descriptor id returns ret.
Observes(id, op, arg, ret) ==
    /\ last' = Call(op, id, arg, ret, TRUE)
    /\ nOps' = nOps + 1
    /\ UNCHANGED <<desc, phase, heap, crashed, budget, ghost, threadVars>>

\* The process stops inside call op on descriptor id.
Aborts(id, op, arg) ==
    /\ crashed' = TRUE
    /\ last' = Call(op, id, arg, Ret(FALSE, "abort"), TRUE)
    /\ nOps' = nOps + 1
    /\ UNCHANGED <<desc, phase, heap, budget, ghost, threadVars>>

(***************************************************************************)
(* Configuration setters.                                                  *)
(***************************************************************************)
\* SetUniqueID with the invalidation skipped when the uid does not change.
SetUniqueID_keepsCache(impl, uid) ==
    IF impl.m_uid = (IF uid.null THEN <<>> ELSE uid.str)
    THEN impl
    ELSE [impl EXCEPT !.m_uid = IF uid.null THEN <<>> ELSE uid.str,
                      !.m_cacheID = <<>>]

SetUniqueID(impl, uid) ==
    [impl EXCEPT !.m_uid = IF uid.null THEN <<>> ELSE uid.str,
                 !.m_cacheID = <<>>]

setUniqueID(id, uid) ==
    /\ Callable(id)
    /\ Returns(id, "setUniqueID", uid, SetUniqueID(desc[id], uid), Void)
    /\ UNCHANGED ghost

SetFunctionName(impl, name) ==
    [impl EXCEPT !.m_functionName = Replace(name, <<"_", "_">>, <<"_">>),
                 !.m_cacheID = <<>>]

setFunctionName(id, name) ==
    /\ Callable(id)
    /\ Returns(id, "setFunctionName", name, SetFunctionName(desc[id], name), Void)
    /\ UNCHANGED ghost

SetResourcePrefix(impl, prefix) ==
    [impl EXCEPT !.m_resourcePrefix = Replace(prefix, <<"_", "_">>, <<"_">>),
                 !.m_cacheID = <<>>]

setResourcePrefix(id, prefix) ==
    /\ Callable(id)
    /\ Returns(id, "setResourcePrefix", prefix, SetResourcePrefix(desc[id], prefix), Void)
    /\ UNCHANGED ghost

SetPixelName(impl, name) ==
    [impl EXCEPT !.m_pixelName = Replace(name, <<"_", "_">>, <<"_">>),
                 !.m_cacheID = <<>>]

setPixelName(id, name) ==
    /\ Callable(id)
    /\ Returns(id, "setPixelName", name, SetPixelName(desc[id], name), Void)
    /\ UNCHANGED ghost

\* The pointer is deleted a second time: the storage it names was freed.
DanglingWrapper(impl) ==
    /\ impl.m_classWrappingInterface # 0
    /\ ~heap[impl.m_classWrappingInterface].live

\* delete m_classWrappingInterface, when the pointer is not null.
HeapAfterDelete(impl) ==
    IF impl.m_classWrappingInterface # 0 /\ heap[impl.m_classWrappingInterface].live
    THEN [heap EXCEPT ![impl.m_classWrappingInterface] = FreedWrapper]
    ELSE heap

\* The Impl after setLanguage; wrapper is the address the new wrapper gets.
SetLanguage(impl, lang, wrapper) ==
    IF lang = METAL
    THEN [impl EXCEPT !.m_language = lang,
                      !.m_functionName = <<"Display">>,
                      !.m_classWrappingInterface = wrapper,
                      !.m_cacheID = <<>>]
    ELSE [impl EXCEPT !.m_language = lang,
                      !.m_cacheID = <<>>]

setLanguage(id, lang) ==
    /\ Callable(id)
    /\ \E outcome \in UBOutcomes :
          /\ (~DanglingWrapper(desc[id])) => outcome = "skip"
          /\ IF outcome = "abort"
             THEN Aborts(id, "setLanguage", lang)
             ELSE /\ ReturnsHeap(id, "setLanguage", lang,
                                 SetLanguage(desc[id], lang, Len(heap) + 1), Void,
                                 IF lang = METAL
                                 THEN Append(HeapAfterDelete(desc[id]), NewWrapper)
                                 ELSE HeapAfterDelete(desc[id]))
                  /\ UNCHANGED ghost

(***************************************************************************)
(* Resource indices and dynamic properties.                                *)
(***************************************************************************)
\* The value of ++m_numResources.
NextResourceIndex_preIncrement(impl) == impl.m_numResources + 1

\* return m_numResources++ : the value returned.
NextResourceIndex(impl) == impl.m_numResources

\* return m_numResources++ : the Impl afterwards.  The counter is an unsigned
\* that starts at 0, and a run makes at most MaxOps calls: it never wraps.
GetNextResourceIndex(impl) ==
    [impl EXCEPT !.m_numResources = impl.m_numResources + 1]

getNextResourceIndex(id) ==
    /\ Callable(id)
    /\ Returns(id, "getNextResourceIndex", "none", GetNextResourceIndex(desc[id]),
               Ret(TRUE, NextResourceIndex(desc[id])))
    /\ ghost' = [ghost EXCEPT ![id].issued = Append(@, NextResourceIndex(desc[id]))]

\* hasDynamicProperty looking at the last registered property only.
hasDynamicProperty_lastOnly(impl, type) ==
    /\ impl.m_dynamicProperties # <<>>
    /\ impl.m_dynamicProperties[Len(impl.m_dynamicProperties)].type = type

hasDynamicProperty(impl, type) ==
    \E i \in 1..Len(impl.m_dynamicProperties) : impl.m_dynamicProperties[i].type = type

\* addDynamicProperty inserting at the front of the vector.
AddDynamicProperty_front(impl, prop) ==
    [impl EXCEPT !.m_dynamicProperties = <<prop>> \o @]

\* The Impl after addDynamicProperty returns normally.
AddDynamicProperty(impl, prop) ==
    [impl EXCEPT !.m_dynamicProperties = Append(@, prop)]

addDynamicProperty(id, prop) ==
    /\ Callable(id)
    /\ IF hasDynamicProperty(desc[id], prop.type)
       THEN /\ Returns(id, "addDynamicProperty", prop, desc[id],
                       Ret(FALSE, "Dynamic property already here"))
            /\ UNCHANGED ghost
       ELSE /\ Returns(id, "addDynamicProperty", prop, AddDynamicProperty(desc[id], prop), Void)
            /\ ghost' = [ghost EXCEPT ![id].registered = Append(@, prop)]

GetNumDynamicProperties(impl) == Len(impl.m_dynamicProperties)

getNumDynamicProperties(id) ==
    /\ Callable(id)
    /\ Observes(id, "getNumDynamicProperties", "none", Ret(TRUE, GetNumDynamicProperties(desc[id])))

\* getDynamicProperty(unsigned index); the vector is indexed from 0.
GetDynamicPropertyByIndex(impl, index) ==
    IF index >= Len(impl.m_dynamicProperties)
    THEN Ret(FALSE, "Dynamic properties access error")
    ELSE Ret(TRUE, impl.m_dynamicProperties[index + 1])

getDynamicPropertyByIndex(id, index) ==
    /\ Callable(id)
    /\ Observes(id, "getDynamicPropertyByIndex", index,
                GetDynamicPropertyByIndex(desc[id], index))

\* getDynamicProperty(DynamicPropertyType type): the first of that type.
GetDynamicPropertyByType(impl, type) ==
    IF hasDynamicProperty(impl, type)
    THEN Ret(TRUE, impl.m_dynamicProperties[
                       CHOOSE i \in 1..Len(impl.m_dynamicProperties) :
                           /\ impl.m_dynamicProperties[i].type = type
                           /\ \A j \in 1..(i - 1) : impl.m_dynamicProperties[j].type # type])
    ELSE Ret(FALSE, "Dynamic property not found.")

getDynamicPropertyByType(id, type) ==
    /\ Callable(id)
    /\ Observes(id, "getDynamicPropertyByType", type,
                GetDynamicPropertyByType(desc[id], type))

(***************************************************************************)
(* The cache identity.                                                     *)
(***************************************************************************)
\* The text getCacheID streams into os.
ComposeCacheID(impl) ==
    <<GpuLanguageToString(impl.m_language), " ">>
        \o impl.m_functionName \o <<" ">>
        \o impl.m_resourcePrefix \o <<" ">>
        \o impl.m_pixelName \o <<" ">>
        \o <<ToString(impl.m_numResources), " ">>
        \o impl.m_shaderCodeID

\* getCacheID without the emptiness test, adding to the string it holds.
GetCacheID_appends(impl) ==
    [impl EXCEPT !.m_cacheID = @ \o ComposeCacheID(impl)]

\* The Impl after getCacheID; the call returns its m_cacheID.
GetCacheID(impl) ==
    IF impl.m_cacheID = <<>>
    THEN [impl EXCEPT !.m_cacheID = ComposeCacheID(impl)]
    ELSE impl

getCacheID(id) ==
    /\ Callable(id)
    /\ Returns(id, "getCacheID", "none", GetCacheID(desc[id]),
               Ret(TRUE, GetCacheID(desc[id]).m_cacheID))
    /\ UNCHANGED ghost

(***************************************************************************)
(* Fragment accumulation.                                                  *)
(***************************************************************************)
DeclareBanner == <<"// Declaration of all variables">>

HelperBanner == <<"// Declaration of all helper methods">>

AddToDeclareShaderCode(impl, shaderCode) ==
    [impl EXCEPT !.m_declarations =
        (IF @ = <<>> THEN DeclareBanner ELSE @) \o TextOrEmpty(shaderCode)]

AddToHelperShaderCode(impl, shaderCode) ==
    [impl EXCEPT !.m_helperMethods =
        (IF @ = <<>> THEN HelperBanner ELSE @) \o TextOrEmpty(shaderCode)]

AddToFunctionShaderCode(impl, shaderCode) ==
    [impl EXCEPT !.m_functionBody = @ \o TextOrEmpty(shaderCode)]

AddToFunctionHeaderShaderCode(impl, shaderCode) ==
    [impl EXCEPT !.m_functionHeader = @ \o TextOrEmpty(shaderCode)]

AddToFunctionFooterShaderCode(impl, shaderCode) ==
    [impl EXCEPT !.m_functionFooter = @ \o TextOrEmpty(shaderCode)]

\* The record of a fragment the caller appended to buffer buf of descriptor id.
Appended(id, buf, shaderCode) ==
    ghost' = [ghost EXCEPT ![id].appended[buf] = @ \o (IF shaderCode.null THEN <<>> ELSE shaderCode.str)]

addToDeclareShaderCode(id, shaderCode) ==
    /\ Callable(id)
    /\ Returns(id, "addToDeclareShaderCode", shaderCode,
               AddToDeclareShaderCode(desc[id], shaderCode), Void)
    /\ Appended(id, "m_declarations", shaderCode)

addToHelperShaderCode(id, shaderCode) ==
    /\ Callable(id)
    /\ Returns(id, "addToHelperShaderCode", shaderCode,
               AddToHelperShaderCode(desc[id], shaderCode), Void)
    /\ Appended(id, "m_helperMethods", shaderCode)

addToFunctionShaderCode(id, shaderCode) ==
    /\ Callable(id)
    /\ Returns(id, "addToFunctionShaderCode", shaderCode,
               AddToFunctionShaderCode(desc[id], shaderCode), Void)
    /\ Appended(id, "m_functionBody", shaderCode)

addToFunctionHeaderShaderCode(id, shaderCode) ==
    /\ Callable(id)
    /\ Returns(id, "addToFunctionHeaderShaderCode", shaderCode,
               AddToFunctionHeaderShaderCode(desc[id], shaderCode), Void)
    /\ Appended(id, "m_functionHeader", shaderCode)

addToFunctionFooterShaderCode(id, shaderCode) ==
    /\ Callable(id)
    /\ Returns(id, "addToFunctionFooterShaderCode", shaderCode,
               AddToFunctionFooterShaderCode(desc[id], shaderCode), Void)
    /\ Appended(id, "m_functionFooter", shaderCode)

(***************************************************************************)
(* The textures the compiler registered with the GpuShaderDesc.            *)
(***************************************************************************)
add3DTexture(id, name) ==
    /\ Callable(id)
    /\ Returns(id, "add3DTexture", name,
               [desc[id] EXCEPT !.textures3D = Append(@, name)], Void)
    /\ UNCHANGED ghost

addTexture(id, tex) ==
    /\ Callable(id)
    /\ Returns(id, "addTexture", tex,
               [desc[id] EXCEPT !.textures = Append(@, tex)], Void)
    /\ UNCHANGED ghost

\* GpuShaderText::getTexType(GPU_LANGUAGE_MSL_METAL, dims, "float")
GetTexType(dims) == "texture" \o ToString(dims) \o "d<float>"

\* GpuShaderText::getDimensions(type)
GetDimensions(type) == CHOOSE dims \in 1..3 : GetTexType(dims) = type

\* GpuShaderText::getSamplerName(textureName)
GetSamplerName(textureName) == textureName \o "Sampler"

\* GpuShaderText(GPU_LANGUAGE_MSL_METAL).hasClassWrapper()
HasClassWrapper(lang) == lang = METAL

(***************************************************************************)
(* MetalClassWrappingInterface.                                            *)
(***************************************************************************)
WrapHeaderBanner == <<"// Declaration of class wrapper">>

WrapFooterBanner == <<"// close class wrapper">>

AddToFunctionParameter(w, type, paramName) ==
    [w EXCEPT !.m_classWrapFunctionParams = Append(@, [type |-> type, name |-> paramName])]

AddToHeaderShaderCode(w, shaderCode) ==
    [w EXCEPT !.m_classWrapHeader =
        (IF @ = <<>> THEN WrapHeaderBanner ELSE @) \o TextOrEmpty(shaderCode)]

AddToFooterShaderCode(w, shaderCode) ==
    [w EXCEPT !.m_classWrapFooter =
        (IF @ = <<>> THEN WrapFooterBanner ELSE @) \o TextOrEmpty(shaderCode)]

\* The texture infos of the parameters that are no samplers, in order.
RECURSIVE TextureInfoFromParams(_)
TextureInfoFromParams(params) ==
    IF params = <<>> THEN <<>>
    ELSE (IF Head(params).type = "sampler"
          THEN <<>>
          ELSE <<[name |-> Head(params).name,
                  dimensions |-> GetDimensions(Head(params).type)]>>)
         \o TextureInfoFromParams(Tail(params))

\* The text a list of texture infos contributes to generated code.
RECURSIVE TextureInfoText(_)
TextureInfoText(infos) ==
    IF infos = <<>> THEN <<>>
    ELSE <<Head(infos).name, ToString(Head(infos).dimensions)>> \o TextureInfoText(Tail(infos))

\* GpuShaderText::classWrapperHeader(className, textureInfos), className "OCIO"
ClassWrapperHeader(infos) ==
    <<"struct OCIO { OCIO(">> \o TextureInfoText(infos) \o <<") {} ">>

\* GpuShaderText::classWrapperFooter(className, textureInfos, functionName)
ClassWrapperFooter(infos, functionName) ==
    <<"}; OCIO(">> \o TextureInfoText(infos) \o <<").">> \o functionName \o <<"(inPixel);">>

WriteShaderClassWrapperHeader(w) ==
    IF ~HasClassWrapper(METAL) THEN w
    ELSE AddToHeaderShaderCode(
             w, CStr(ClassWrapperHeader(TextureInfoFromParams(w.m_classWrapFunctionParams))))

WriteShaderClassWrapperFooter(w, functionName) ==
    IF ~HasClassWrapper(METAL) THEN w
    ELSE AddToFooterShaderCode(
             w, CStr(ClassWrapperFooter(TextureInfoFromParams(w.m_classWrapFunctionParams),
                                        functionName)))

(***************************************************************************)
(* finalize and createShaderText.                                          *)
(***************************************************************************)
OslPreamble(functionName) ==
    <<"/* All the includes */", "/* All the generic helper methods */",
      "/* The shader implementation */", "shader OSL_">>
        \o functionName
        \o <<"(color4 inColor = {color(0), 1}, output color4 outColor = {color(0), 1})", "{">>

OslFooter(functionName) ==
    <<"outColor = ">> \o functionName \o <<"(inColor);", "}">>

\* The OSL pre-pass run for every language.
FinalizeOSL_anyLanguage(impl) ==
    [impl EXCEPT !.m_declarations = OslPreamble(impl.m_functionName) \o @,
                 !.m_functionFooter = @ \o OslFooter(impl.m_functionName)]

\* The LANGUAGE_OSL_1 branch of finalize.
FinalizeOSL(impl) ==
    IF impl.m_language = OSL
    THEN [impl EXCEPT !.m_declarations = OslPreamble(impl.m_functionName) \o @,
                      !.m_functionFooter = @ \o OslFooter(impl.m_functionName)]
    ELSE impl

\* The parameters the first loop of the Metal branch adds.
RECURSIVE Add3DTextureParams(_, _)
Add3DTextureParams(w, texs) ==
    IF texs = <<>> THEN w
    ELSE Add3DTextureParams(
             AddToFunctionParameter(
                 AddToFunctionParameter(w, GetTexType(3), Head(texs)),
                 "sampler", GetSamplerName(Head(texs))),
             Tail(texs))

\* The parameters the second loop of the Metal branch adds.
RECURSIVE AddTextureParams(_, _)
AddTextureParams(w, texs) ==
    IF texs = <<>> THEN w
    ELSE AddTextureParams(
             AddToFunctionParameter(
                 AddToFunctionParameter(
                     w, GetTexType(IF Head(texs).height > 1 THEN 2 ELSE 1), Head(texs).name),
                 "sampler", GetSamplerName(Head(texs).name)),
             Tail(texs))

\* The GPU_LANGUAGE_MSL_METAL branch of finalize, on the wrapper w.
FinalizeMetal(impl, w) ==
    WriteShaderClassWrapperFooter(
        WriteShaderClassWrapperHeader(
            AddTextureParams(Add3DTextureParams(w, impl.textures3D), impl.textures)),
        impl.m_functionName)

\* createShaderText with the helper methods placed before the declarations.
CreateShaderText_helpersFirst(impl, w, declarations, helperMethods, functionHeader, functionBody, functionFooter) ==
    LET shaderClassWrapperHeader ==
            IF impl.m_language = METAL THEN CStr(w.m_classWrapHeader) ELSE NullPtr
        shaderClassWrapperFooter ==
            IF impl.m_language = METAL THEN CStr(w.m_classWrapFooter) ELSE NullPtr
        code == TextOrEmpty(shaderClassWrapperHeader)
                    \o TextOrEmpty(helperMethods)
                    \o TextOrEmpty(declarations)
                    \o TextOrEmpty(functionHeader)
                    \o TextOrEmpty(functionBody)
                    \o TextOrEmpty(functionFooter)
                    \o TextOrEmpty(shaderClassWrapperFooter)
    IN  [impl EXCEPT !.m_shaderCode = code,
                     !.m_shaderCodeID = CacheIDHash(code),
                     !.m_cacheID = <<>>]

\* createShaderText; w is the wrapper m_classWrappingInterface points to.
CreateShaderText(impl, w, declarations, helperMethods, functionHeader, functionBody, functionFooter) ==
    LET shaderClassWrapperHeader ==
            IF impl.m_language = METAL THEN CStr(w.m_classWrapHeader) ELSE NullPtr
        shaderClassWrapperFooter ==
            IF impl.m_language = METAL THEN CStr(w.m_classWrapFooter) ELSE NullPtr
        code == TextOrEmpty(shaderClassWrapperHeader)
                    \o TextOrEmpty(declarations)
                    \o TextOrEmpty(helperMethods)
                    \o TextOrEmpty(functionHeader)
                    \o TextOrEmpty(functionBody)
                    \o TextOrEmpty(functionFooter)
                    \o TextOrEmpty(shaderClassWrapperFooter)
    IN  [impl EXCEPT !.m_shaderCode = code,
                     !.m_shaderCodeID = CacheIDHash(code),
                     !.m_cacheID = <<>>]

\* The call of createShaderText that ends finalize.
FinalizeText(impl, w) ==
    CreateShaderText(impl, w, CStr(impl.m_declarations), CStr(impl.m_helperMethods),
                     CStr(impl.m_functionHeader), CStr(impl.m_functionBody),
                     CStr(impl.m_functionFooter))

\* The wrapper is used though the pointer is null or names freed storage.
NoWrapper(impl) ==
    /\ impl.m_language = METAL
    /\ \/ impl.m_classWrappingInterface = 0
       \/ ~heap[impl.m_classWrappingInterface].live

Finalized(id) == ghost' = [ghost EXCEPT ![id].nFinalize = @ + 1]

finalize(id) ==
    /\ Callable(id)
    /\ \E outcome \in UBOutcomes :
          /\ (~NoWrapper(desc[id])) => outcome = "skip"
          /\ IF outcome = "abort"
             THEN Aborts(id, "finalize", "none")
             ELSE IF NoWrapper(desc[id])
             THEN /\ Returns(id, "finalize", "none",
                             FinalizeText(FinalizeOSL(desc[id]), NewWrapper), Void)
                  /\ Finalized(id)
             ELSE IF desc[id].m_language = METAL
             THEN /\ ReturnsHeap(id, "finalize", "none",
                         FinalizeText(desc[id],
                             FinalizeMetal(desc[id], heap[desc[id].m_classWrappingInterface])),
                         Void,
                         [heap EXCEPT ![desc[id].m_classWrappingInterface] =
                             FinalizeMetal(desc[id], @)])
                  /\ Finalized(id)
             ELSE /\ Returns(id, "finalize", "none",
                             FinalizeText(FinalizeOSL(desc[id]), NewWrapper), Void)
                  /\ Finalized(id)

GetShaderText(impl) == impl.m_shaderCode

getShaderText(id) ==
    /\ Callable(id)
    /\ Observes(id, "getShaderText", "none", Ret(TRUE, GetShaderText(desc[id])))

(***************************************************************************)
(* clone and destruction.                                                  *)
(***************************************************************************)
\* An assignment that copies the content id and leaves the text cleared.
AssignImpl_copiesShaderCodeID(lhs, rhs) ==
    [lhs EXCEPT !.m_uid = rhs.m_uid,
                !.m_language = rhs.m_language,
                !.m_functionName = rhs.m_functionName,
                !.m_resourcePrefix = rhs.m_resourcePrefix,
                !.m_pixelName = rhs.m_pixelName,
                !.m_numResources = rhs.m_numResources,
                !.m_cacheID = rhs.m_cacheID,
                !.m_declarations = rhs.m_declarations,
                !.m_helperMethods = rhs.m_helperMethods,
                !.m_functionHeader = rhs.m_functionHeader,
                !.m_functionBody = rhs.m_functionBody,
                !.m_functionFooter = rhs.m_functionFooter,
                !.m_shaderCode = <<>>,
                !.m_shaderCodeID = rhs.m_shaderCodeID]

\* Impl::operator= for this != &rhs.
AssignImpl(lhs, rhs) ==
    [lhs EXCEPT !.m_uid = rhs.m_uid,
                !.m_language = rhs.m_language,
                !.m_functionName = rhs.m_functionName,
                !.m_resourcePrefix = rhs.m_resourcePrefix,
                !.m_pixelName = rhs.m_pixelName,
                !.m_numResources = rhs.m_numResources,
                !.m_cacheID = rhs.m_cacheID,
                !.m_declarations = rhs.m_declarations,
                !.m_helperMethods = rhs.m_helperMethods,
                !.m_functionHeader = rhs.m_functionHeader,
                !.m_functionBody = rhs.m_functionBody,
                !.m_functionFooter = rhs.m_functionFooter,
                !.m_shaderCode = <<>>,
                !.m_shaderCodeID = <<>>]

\* GpuShaderDesc::clone: CreateShaderDesc() and the assignment of the Impl.
clone(src, dst) ==
    /\ Callable(src)
    /\ phase[dst] = "none"
    /\ desc' = [desc EXCEPT ![dst] = AssignImpl(NewImpl, desc[src])]
    /\ phase' = [phase EXCEPT ![dst] = "live"]
    /\ ghost' = [ghost EXCEPT ![dst] = [NewGhost EXCEPT !.appended = ghost[src].appended,
                                                        !.base = desc[src].m_numResources]]
    /\ last' = Call("clone", src, "none", Ret(TRUE, dst), TRUE)
    /\ nOps' = nOps + 1
    /\ UNCHANGED <<heap, crashed, budget, threadVars>>

\* ~GpuShaderCreator: delete m_impl, and ~Impl deletes the wrapper.
destroy(id) ==
    /\ Callable(id)
    /\ \E outcome \in UBOutcomes :
          /\ (~DanglingWrapper(desc[id])) => outcome = "skip"
          /\ IF outcome = "abort"
             THEN Aborts(id, "destroy", "none")
             ELSE /\ heap' = HeapAfterDelete(desc[id])
                  /\ phase' = [phase EXCEPT ![id] = "dead"]
                  /\ last' = Call("destroy", id, "none", Void, TRUE)
                  /\ nOps' = nOps + 1
                  /\ UNCHANGED <<desc, crashed, budget, ghost, threadVars>>

(***************************************************************************)
(* The program: any sequence of calls on the live descriptors.             *)
(***************************************************************************)
IndexInputs == 0..2

Next ==
    \/ \E id \in Ids, uid \in UidInputs : setUniqueID(id, uid)
    \/ \E id \in Ids, lang \in Languages : setLanguage(id, lang)
    \/ \E id \in Ids, name \in NameInputs : setFunctionName(id, name)
    \/ \E id \in Ids, name \in NameInputs : setResourcePrefix(id, name)
    \/ \E id \in Ids, name \in NameInputs : setPixelName(id, name)
    \/ \E id \in Ids : getNextResourceIndex(id)
    \/ \E id \in Ids, prop \in PropInputs : addDynamicProperty(id, prop)
    \/ \E id \in Ids : getNumDynamicProperties(id)
    \/ \E id \in Ids, index \in IndexInputs : getDynamicPropertyByIndex(id, index)
    \/ \E id \in Ids, type \in PropTypes : getDynamicPropertyByType(id, type)
    \/ \E id \in Ids : getCacheID(id)
    \/ \E id \in Ids, code \in FragInputs : addToDeclareShaderCode(id, code)
    \/ \E id \in Ids, code \in FragInputs : addToHelperShaderCode(id, code)
    \/ \E id \in Ids, code \in FragInputs : addToFunctionShaderCode(id, code)
    \/ \E id \in Ids, code \in FragInputs : addToFunctionHeaderShaderCode(id, code)
    \/ \E id \in Ids, code \in FragInputs : addToFunctionFooterShaderCode(id, code)
    \/ \E id \in Ids, name \in Tex3DInputs : add3DTexture(id, name)
    \/ \E id \in Ids, tex \in TexInputs : addTexture(id, tex)
    \/ \E id \in Ids : finalize(id)
    \/ \E id \in Ids : getShaderText(id)
    \/ \E src \in Ids, dst \in Ids : clone(src, dst)
    \/ \E id \in Ids : destroy(id)

Spec == Init /\ [][Next]_vars

\* The runs that only set the language, register textures, assemble the
\* shader text and read it: the calls of a Metal renderer.
InitTextures == Constructed(MaxTextureOps)

NextTextures ==
    \/ \E lang \in Languages : setLanguage("orig", lang)
    \/ \E name \in Tex3DInputs : add3DTexture("orig", name)
    \/ \E tex \in TexInputs : addTexture("orig", tex)
    \/ finalize("orig")
    \/ getShaderText("orig")

SpecTextures == InitTextures /\ [][NextTextures]_vars

(***************************************************************************)
(* Concurrent runs: the reader threads call getCacheID and the writer      *)
(* thread calls the mutators and clone on the constructed descriptor.  A   *)
(* step of a thread is one statement of the method it is in.               *)
(***************************************************************************)
ThreadUidInputs == {CStr(<<"u">>)}

ThreadNameInputs == {<<"a", "_", "_", "b">>}

\* What a read that races with a write can give: the value, a torn value,
\* or the end of the process.
RaceOutcomes == {"value", "torn", "abort"}

Torn == <<"?">>

\* An AutoMutex that does not wait for the mutex.
MutexFree_always(id) == TRUE

\* The mutex is taken by nobody: AutoMutex can lock it.
MutexFree(id) == mutex[id] = NoThread

\* Thread t is at pc of a call of one of ops.
InCall(t, ops, pc) == (~crashed) /\ threads[t].op \in ops /\ threads[t].pc = pc

\* The access of member of descriptor id that thread t makes in this step.
Access(t, id, member, kind) ==
    [thread |-> t, id |-> id, member |-> member, kind |-> kind,
     locked |-> mutex[id] = t]

\* Thread t enters a call on the constructed descriptor, at pc.
BeginCall(t, op, arg, pc) ==
    /\ Callable("orig")
    /\ threads[t].pc = "idle"
    /\ threads' = [threads EXCEPT ![t] = [@ EXCEPT !.pc = pc, !.op = op, !.arg = arg,
                                                   !.k = 0, !.os = <<>>]]
    /\ nOps' = nOps + 1
    /\ access' = NoAccess
    /\ UNCHANGED <<desc, phase, heap, crashed, budget, last, ghost, mutex, committed>>

\* A statement of thread t: the thread becomes rec, the constructed
\* descriptor impl and the heap hp; acc is the access made.
ThreadStep(t, rec, impl, hp, acc) ==
    /\ threads' = [threads EXCEPT ![t] = rec]
    /\ desc' = [desc EXCEPT !["orig"] = impl]
    /\ heap' = hp
    /\ access' = acc
    /\ UNCHANGED <<phase, crashed, nOps, budget, last, ghost>>

\* The process stops in a statement of thread t.
ThreadAborts(t) ==
    /\ crashed' = TRUE
    /\ access' = NoAccess
    /\ UNCHANGED <<desc, phase, heap, nOps, budget, last, ghost, threads, mutex, committed>>

BeginGetCacheID(t) == BeginCall(t, "getCacheID", "none", "lock")

BeginSetUniqueID(t, uid) == BeginCall(t, "setUniqueID", uid, "lock")

BeginSetLanguage(t, lang) == BeginCall(t, "setLanguage", lang, "lock")

BeginSetFunctionName(t, name) == BeginCall(t, "setFunctionName", name, "lock")

BeginSetResourcePrefix(t, prefix) == BeginCall(t, "setResourcePrefix", prefix, "lock")

BeginSetPixelName(t, name) == BeginCall(t, "setPixelName", name, "lock")

BeginFinalize(t) == BeginCall(t, "finalize", "none", "prepass")

BeginClone(t) ==
    /\ phase["copy"] = "none"
    /\ BeginCall(t, "clone", "none", "copy")

\* The statement a method runs once it holds the lock.
AfterLock(op) ==
    CASE op = "getCacheID" -> "test"
      [] op = "setLanguage" -> "delete"
      [] op = "finalize" -> "assemble"
      [] OTHER -> "write"

\* AutoMutex lock(getImpl()->m_cacheIDMutex)
Lock(t) ==
    /\ ~crashed
    /\ threads[t].pc = "lock"
    /\ MutexFree("orig")
    /\ mutex' = [mutex EXCEPT !["orig"] = t]
    /\ threads' = [threads EXCEPT ![t].pc = AfterLock(threads[t].op)]
    /\ access' = NoAccess
    /\ UNCHANGED <<desc, phase, heap, crashed, nOps, budget, last, ghost, committed>>

\* The end of the scope of the AutoMutex, and the return.
Unlock(t) ==
    /\ ~crashed
    /\ threads[t].pc = "unlock"
    /\ mutex' = [mutex EXCEPT !["orig"] = NoThread]
    /\ threads' = [threads EXCEPT ![t] = [@ EXCEPT !.pc = "idle", !.op = "none",
                                                   !.arg = "none", !.k = 0, !.os = <<>>]]
    /\ access' = NoAccess
    /\ UNCHANGED <<desc, phase, heap, crashed, nOps, budget, last, ghost, committed>>

\* getCacheID: if(m_cacheID.empty())
TestCacheID(t) ==
    /\ InCall(t, {"getCacheID"}, "test")
    /\ ThreadStep(t, [threads[t] EXCEPT !.pc = IF desc["orig"].m_cacheID = <<>>
                                                THEN "compose" ELSE "return"],
                  desc["orig"], heap, Access(t, "orig", "m_cacheID", "read"))
    /\ UNCHANGED <<mutex, committed>>

\* The members getCacheID streams into os, and what each contributes.
CacheIDMembers ==
    <<"m_language", "m_functionName", "m_resourcePrefix", "m_pixelName",
      "m_numResources", "m_shaderCodeID">>

CacheIDParts(impl) ==
    <<<<GpuLanguageToString(impl.m_language), " ">>,
      impl.m_functionName \o <<" ">>,
      impl.m_resourcePrefix \o <<" ">>,
      impl.m_pixelName \o <<" ">>,
      <<ToString(impl.m_numResources), " ">>,
      impl.m_shaderCodeID>>

\* getCacheID: one os << statement.
ComposePart(t) ==
    /\ InCall(t, {"getCacheID"}, "compose")
    /\ ThreadStep(t, [threads[t] EXCEPT
                         !.k = @ + 1,
                         !.os = @ \o CacheIDParts(desc["orig"])[threads[t].k + 1],
                         !.pc = IF threads[t].k + 1 = Len(CacheIDMembers)
                                THEN "store" ELSE "compose"],
                  desc["orig"], heap,
                  Access(t, "orig", CacheIDMembers[threads[t].k + 1], "read"))
    /\ UNCHANGED <<mutex, committed>>

\* getCacheID: m_cacheID = os.str()
StoreCacheID(t) ==
    /\ InCall(t, {"getCacheID"}, "store")
    /\ ThreadStep(t, [threads[t] EXCEPT !.pc = "return"],
                  [desc["orig"] EXCEPT !.m_cacheID = threads[t].os], heap,
                  Access(t, "orig", "m_cacheID", "write"))
    /\ UNCHANGED <<mutex, committed>>

\* getCacheID: return m_cacheID.c_str()
ReturnCacheID(t) ==
    /\ InCall(t, {"getCacheID"}, "return")
    /\ ThreadStep(t, [threads[t] EXCEPT !.pc = "unlock",
                                        !.ret = desc["orig"].m_cacheID,
                                        !.at = committed.n],
                  desc["orig"], heap, Access(t, "orig", "m_cacheID", "read"))
    /\ UNCHANGED <<mutex, committed>>

\* The setters of one member, the member each writes and the Impl it leaves.
MemberSetters == {"setUniqueID", "setFunctionName", "setResourcePrefix", "setPixelName"}

SetterMember(op) ==
    CASE op = "setUniqueID" -> "m_uid"
      [] op = "setFunctionName" -> "m_functionName"
      [] op = "setResourcePrefix" -> "m_resourcePrefix"
      [] op = "setPixelName" -> "m_pixelName"

SetterResult(op, impl, arg) ==
    CASE op = "setUniqueID" -> SetUniqueID(impl, arg)
      [] op = "setFunctionName" -> SetFunctionName(impl, arg)
      [] op = "setResourcePrefix" -> SetResourcePrefix(impl, arg)
      [] op = "setPixelName" -> SetPixelName(impl, arg)

\* A setter: the assignment of the member.
WriteMember(t) ==
    /\ InCall(t, MemberSetters, "write")
    /\ ThreadStep(t, [threads[t] EXCEPT !.pc = "clear"],
                  [SetterResult(threads[t].op, desc["orig"], threads[t].arg)
                      EXCEPT !.m_cacheID = desc["orig"].m_cacheID],
                  heap, Access(t, "orig", SetterMember(threads[t].op), "write"))
    /\ UNCHANGED <<mutex, committed>>

\* setLanguage: if(m_classWrappingInterface) delete m_classWrappingInterface
DeleteWrapper(t) ==
    /\ InCall(t, {"setLanguage"}, "delete")
    /\ \E outcome \in UBOutcomes :
          /\ (~DanglingWrapper(desc["orig"])) => outcome = "skip"
          /\ IF outcome = "abort"
             THEN ThreadAborts(t)
             ELSE /\ ThreadStep(t, [threads[t] EXCEPT !.pc = "language"], desc["orig"],
                                HeapAfterDelete(desc["orig"]),
                                Access(t, "orig", "m_classWrappingInterface", "read"))
                  /\ UNCHANGED <<mutex, committed>>

\* setLanguage: m_language = lang
WriteLanguage(t) ==
    /\ InCall(t, {"setLanguage"}, "language")
    /\ ThreadStep(t, [threads[t] EXCEPT !.pc = IF threads[t].arg = METAL
                                                THEN "name" ELSE "clear"],
                  [desc["orig"] EXCEPT
                      !.m_language = SetLanguage(desc["orig"], threads[t].arg, 0).m_language],
                  heap, Access(t, "orig", "m_language", "write"))
    /\ UNCHANGED <<mutex, committed>>

\* setLanguage: m_functionName = "Display"
WriteDisplayName(t) ==
    /\ InCall(t, {"setLanguage"}, "name")
    /\ ThreadStep(t, [threads[t] EXCEPT !.pc = "new"],
                  [desc["orig"] EXCEPT
                      !.m_functionName = SetLanguage(desc["orig"], METAL, 0).m_functionName],
                  heap, Access(t, "orig", "m_functionName", "write"))
    /\ UNCHANGED <<mutex, committed>>

\* setLanguage: m_classWrappingInterface = new MetalClassWrappingInterface()
AllocateWrapper(t) ==
    /\ InCall(t, {"setLanguage"}, "new")
    /\ ThreadStep(t, [threads[t] EXCEPT !.pc = "clear"],
                  [desc["orig"] EXCEPT
                      !.m_classWrappingInterface =
                          SetLanguage(desc["orig"], METAL, Len(heap) + 1).m_classWrappingInterface],
                  Append(heap, NewWrapper),
                  Access(t, "orig", "m_classWrappingInterface", "write"))
    /\ UNCHANGED <<mutex, committed>>

\* finalize: the language pre-pass, before createShaderText takes the lock.
PrePass(t) ==
    /\ InCall(t, {"finalize"}, "prepass")
    /\ \E outcome \in UBOutcomes :
          /\ (~NoWrapper(desc["orig"])) => outcome = "skip"
          /\ IF outcome = "abort"
             THEN ThreadAborts(t)
             ELSE /\ ThreadStep(t, [threads[t] EXCEPT !.pc = "lock"],
                                FinalizeOSL(desc["orig"]),
                                IF desc["orig"].m_language = METAL /\ ~NoWrapper(desc["orig"])
                                THEN [heap EXCEPT ![desc["orig"].m_classWrappingInterface] =
                                         FinalizeMetal(desc["orig"], @)]
                                ELSE heap,
                                Access(t, "orig", "m_declarations", "write"))
                  /\ UNCHANGED <<mutex, committed>>

\* createShaderText: the concatenation and the hash.
Assemble(t) ==
    /\ InCall(t, {"finalize"}, "assemble")
    /\ ThreadStep(t, [threads[t] EXCEPT !.pc = "clear"],
                  [FinalizeText(desc["orig"],
                                IF NoWrapper(desc["orig"]) \/ desc["orig"].m_language # METAL
                                THEN NewWrapper
                                ELSE heap[desc["orig"].m_classWrappingInterface])
                      EXCEPT !.m_cacheID = desc["orig"].m_cacheID],
                  heap, Access(t, "orig", "m_shaderCodeID", "write"))
    /\ UNCHANGED <<mutex, committed>>

\* The last statement of every mutator: m_cacheID.clear()
ClearCacheID(t) ==
    /\ InCall(t, MemberSetters \cup {"setLanguage", "finalize"}, "clear")
    /\ ThreadStep(t, [threads[t] EXCEPT !.pc = "unlock"],
                  [desc["orig"] EXCEPT !.m_cacheID = <<>>], heap,
                  Access(t, "orig", "m_cacheID", "write"))
    /\ committed' = [impl |-> [desc["orig"] EXCEPT !.m_cacheID = <<>>],
                     n |-> committed.n + 1]
    /\ UNCHANGED mutex

\* The members Impl::operator= copies, in the order of its assignments.
CloneMembers ==
    <<"m_uid", "m_language", "m_functionName", "m_resourcePrefix", "m_pixelName",
      "m_numResources", "m_cacheID", "m_declarations", "m_helperMethods",
      "m_functionHeader", "m_functionBody", "m_functionFooter">>

\* The members a call writes between taking and releasing the lock.
WriteSet(op) ==
    CASE op \in MemberSetters -> {SetterMember(op), "m_cacheID"}
      [] op = "setLanguage" -> {"m_language", "m_functionName", "m_cacheID"}
      [] op = "getCacheID" -> {"m_cacheID"}
      [] op = "finalize" -> {"m_cacheID"}
      [] OTHER -> {}

\* Another thread is in a critical section that writes the member: a read of
\* it that takes no lock is a data race.
Racing(t, member) ==
    \E u \in Threads \ {t} :
        /\ threads[u].pc \notin {"idle", "lock", "prepass", "copy", "clearText"}
        /\ member \in WriteSet(threads[u].op)
        /\ threads[u].op = "getCacheID"
             => \/ threads[u].k > 0
                \/ threads[u].pc = "test" /\ desc["orig"].m_cacheID = <<>>

\* Impl::operator= : one assignment, made without the lock of either Impl.
CopyMember(t) ==
    /\ InCall(t, {"clone"}, "copy")
    /\ LET member == CloneMembers[threads[t].k + 1]
       IN  \E outcome \in RaceOutcomes :
              /\ (~Racing(t, member)) => outcome = "value"
              /\ IF outcome = "abort"
                 THEN ThreadAborts(t)
                 ELSE /\ desc' = [desc EXCEPT !["copy"][member] =
                                    IF outcome = "torn" THEN Torn
                                    ELSE AssignImpl(desc["copy"], desc["orig"])[member]]
                      /\ threads' = [threads EXCEPT ![t] =
                                        [@ EXCEPT !.k = @ + 1,
                                                  !.pc = IF threads[t].k + 1 = Len(CloneMembers)
                                                         THEN "clearText" ELSE "copy"]]
                      /\ access' = Access(t, "orig", member, "read")
                      /\ UNCHANGED <<phase, heap, crashed, nOps, budget, last, ghost,
                                     mutex, committed>>

\* Impl::operator= : m_shaderCode.clear(); m_shaderCodeID.clear(); and the
\* return of clone().
ClearShaderCode(t) ==
    /\ InCall(t, {"clone"}, "clearText")
    /\ desc' = [desc EXCEPT
                   !["copy"].m_shaderCode = AssignImpl(desc["copy"], desc["orig"]).m_shaderCode,
                   !["copy"].m_shaderCodeID = AssignImpl(desc["copy"], desc["orig"]).m_shaderCodeID]
    /\ phase' = [phase EXCEPT !["copy"] = "live"]
    /\ threads' = [threads EXCEPT ![t] = [@ EXCEPT !.pc = "idle", !.op = "none", !.k = 0]]
    /\ access' = Access(t, "copy", "m_shaderCodeID", "write")
    /\ UNCHANGED <<heap, crashed, nOps, budget, last, ghost, mutex, committed>>

InitThreads == Constructed(MaxThreadOps)

NextThreads ==
    \/ \E t \in Readers : BeginGetCacheID(t)
    \/ \E uid \in ThreadUidInputs : BeginSetUniqueID("writer", uid)
    \/ \E lang \in Languages : BeginSetLanguage("writer", lang)
    \/ \E name \in ThreadNameInputs : BeginSetFunctionName("writer", name)
    \/ \E prefix \in ThreadNameInputs : BeginSetResourcePrefix("writer", prefix)
    \/ \E name \in ThreadNameInputs : BeginSetPixelName("writer", name)
    \/ BeginFinalize("writer")
    \/ BeginClone("writer")
    \/ \E t \in Threads : Lock(t)
    \/ \E t \in Threads : Unlock(t)
    \/ \E t \in Threads : TestCacheID(t)
    \/ \E t \in Threads : ComposePart(t)
    \/ \E t \in Threads : StoreCacheID(t)
    \/ \E t \in Threads : ReturnCacheID(t)
    \/ \E t \in Threads : WriteMember(t)
    \/ \E t \in Threads : DeleteWrapper(t)
    \/ \E t \in Threads : WriteLanguage(t)
    \/ \E t \in Threads : WriteDisplayName(t)
    \/ \E t \in Threads : AllocateWrapper(t)
    \/ \E t \in Threads : PrePass(t)
    \/ \E t \in Threads : Assemble(t)
    \/ \E t \in Threads : ClearCacheID(t)
    \/ \E t \in Threads : CopyMember(t)
    \/ \E t \in Threads : ClearShaderCode(t)

SpecThreads == InitThreads /\ [][NextThreads]_vars

(***************************************************************************)
(* Properties.                                                             *)
(***************************************************************************)
\* The call recorded in last has just been made on a descriptor.
Returned(op) == last.op = op /\ last.ret.ok

DoubleUnderscore == <<"_", "_">>

\* C1: whatever calls were made before, getCacheID() returns the string
\* composed from the descriptor's current language name, function name,
\* resource prefix, pixel name, resource counter and content hash.
C1_CacheIDIsCurrent ==
    Returned("getCacheID") => last.ret.val = ComposeCacheID(desc[last.id])

InvalidatingOps ==
    {"setUniqueID", "setLanguage", "setFunctionName", "setResourcePrefix", "setPixelName",
     "finalize"}

\* C2: when a setter or finalize returns, the cached identity is empty, also
\* when the call changed no value; a getCacheID that follows on the same
\* descriptor returns the newly composed identity.
C2_SettersInvalidate ==
    [][/\ (last'.op \in InvalidatingOps /\ last'.ret.ok)
            => desc'[last'.id].m_cacheID = <<>>
       /\ (last.op \in InvalidatingOps /\ last.ret.ok
             /\ last'.op = "getCacheID" /\ last'.id = last.id)
            => /\ last'.ret.val = ComposeCacheID(desc'[last'.id])
               /\ desc'[last'.id].m_cacheID = last'.ret.val]_vars

\* A setter has returned that set the value the field already had, on a
\* descriptor whose identity was cached.
C2_Witness ==
    /\ last.op \in InvalidatingOps \ {"finalize"}
    /\ last.ret.ok
    /\ last.same
    /\ last.pre # <<>>
    /\ desc[last.id].m_cacheID = <<>>

\* C3: a getCacheID() that follows a getCacheID() on the same descriptor
\* returns the same string and changes nothing.
C3_RepeatedGetCacheID ==
    [][(last.op = "getCacheID" /\ last'.op = "getCacheID" /\ last'.id = last.id
          /\ nOps' = nOps + 1)
         => /\ last'.ret.val = last.ret.val
            /\ desc' = desc
            /\ heap' = heap
            /\ phase' = phase]_vars

\* The second of two calls was a getCacheID on a descriptor with a cached
\* identity: only a getCacheID on it can have been the first.
C3_Witness ==
    /\ nOps = 2
    /\ Returned("getCacheID")
    /\ last.id = "orig"
    /\ last.pre # <<>>
    /\ last.ret.val = last.pre

\* C4: functionName, resourcePrefix and pixelName never hold "__".
C4_NoDoubleUnderscore ==
    \A id \in Ids :
        /\ ~Contains(desc[id].m_functionName, DoubleUnderscore)
        /\ ~Contains(desc[id].m_resourcePrefix, DoubleUnderscore)
        /\ ~Contains(desc[id].m_pixelName, DoubleUnderscore)

\* C5 as stated: on every descriptor the k-th getNextResourceIndex() returns k-1.
C5_KthCallReturnsKMinusOne ==
    \A id \in Ids : \A k \in 1..Len(ghost[id].issued) : ghost[id].issued[k] = k - 1

\* C5 as amended: the k-th getNextResourceIndex() on a descriptor returns
\* c0 + k - 1, where c0 is 0 for a constructed descriptor and the resource
\* count of the source at the time of the clone for a clone; the counter is
\* c0 plus the number of calls, so it never decreases and no index is
\* returned twice.
C5_IndicesCountUpFromBase ==
    \A id \in Ids :
        /\ \A k \in 1..Len(ghost[id].issued) : ghost[id].issued[k] = ghost[id].base + k - 1
        /\ desc[id].m_numResources = ghost[id].base + Len(ghost[id].issued)
        /\ id = "orig" => ghost[id].base = 0

\* A clone made after an index was handed out has handed out one itself,
\* with another call in between.
C5_Witness ==
    /\ ghost["copy"].base > 0
    /\ Len(ghost["copy"].issued) > 0
    /\ last.op = "getNextResourceIndex"

\* The registry of descriptor id holds a property of the type.
Registered(registry, type) == \E i \in 1..Len(registry) : registry[i].type = type

\* C6: addDynamicProperty(prop) fails and leaves the registry as it was when
\* a property of prop's type is registered, and appends prop otherwise; the
\* registry never holds two properties of one type.
C6_AddDynamicProperty ==
    [][/\ (last'.op = "addDynamicProperty" /\ nOps' = nOps + 1)
            => IF Registered(desc[last'.id].m_dynamicProperties, last'.arg.type)
               THEN /\ ~last'.ret.ok
                    /\ desc' = desc
               ELSE /\ last'.ret.ok
                    /\ desc'[last'.id].m_dynamicProperties
                           = Append(desc[last'.id].m_dynamicProperties, last'.arg)
       /\ \A id \in Ids :
              \A i, j \in 1..Len(desc'[id].m_dynamicProperties) :
                  desc'[id].m_dynamicProperties[i].type = desc'[id].m_dynamicProperties[j].type
                      => i = j]_vars

\* A second property of a registered type was refused.
C6_Witness ==
    /\ last.op = "addDynamicProperty"
    /\ ~last.ret.ok
    /\ Len(desc[last.id].m_dynamicProperties) = 1
    /\ desc[last.id].m_dynamicProperties[1].type = last.arg.type
    /\ desc[last.id].m_dynamicProperties[1] # last.arg

\* C7: getNumDynamicProperties() is the number of accepted registrations;
\* getDynamicProperty(index) returns the registration number index (from 0)
\* and fails from that number on; getDynamicProperty(type) returns the
\* registered property of the type and fails when there is none; a lookup
\* changes nothing.
C7_Lookups ==
    [][/\ (last'.op = "getNumDynamicProperties" /\ nOps' = nOps + 1)
            => last'.ret.val = Len(ghost'[last'.id].registered)
       /\ (last'.op = "getDynamicPropertyByIndex" /\ nOps' = nOps + 1)
            => IF last'.arg < Len(ghost'[last'.id].registered)
               THEN last'.ret = Ret(TRUE, ghost'[last'.id].registered[last'.arg + 1])
               ELSE ~last'.ret.ok
       /\ (last'.op = "getDynamicPropertyByType" /\ nOps' = nOps + 1)
            => IF Registered(ghost'[last'.id].registered, last'.arg)
               THEN /\ last'.ret.ok
                    /\ last'.ret.val.type = last'.arg
                    /\ \E i \in 1..Len(ghost'[last'.id].registered) :
                           ghost'[last'.id].registered[i] = last'.ret.val
               ELSE ~last'.ret.ok
       /\ (last'.op \in {"getNumDynamicProperties", "getDynamicPropertyByIndex",
                         "getDynamicPropertyByType"} /\ nOps' = nOps + 1)
            => UNCHANGED <<desc, heap, phase, ghost, crashed>>]_vars

\* The second of two registered properties was looked up by its index.
C7_Witness ==
    /\ Returned("getDynamicPropertyByIndex")
    /\ last.arg = 1
    /\ Len(ghost[last.id].registered) = 2
    /\ last.ret.val = ghost[last.id].registered[2]

\* The fragments of a text, in order: the chunks the caller appends.
OnlyFragments(text) == SelectSeq(text, LAMBDA c : c \in {"x", "y"})

\* The class wrapper of an Impl, when it has one.
WrapperOf(impl) ==
    IF impl.m_language = METAL /\ impl.m_classWrappingInterface # 0
    THEN heap[impl.m_classWrappingInterface]
    ELSE NewWrapper

\* C8: after finalize(), getShaderText() is the class-wrapper header, the
\* declarations, the helper methods, the function header, the function body,
\* the function footer and the class-wrapper footer, in this order, as they
\* stand after the language pre-pass; and every buffer holds the fragments
\* appended to it in the order of the calls.
C8_ShaderTextOrder ==
    /\ Returned("finalize")
         => GetShaderText(desc[last.id])
              = WrapperOf(desc[last.id]).m_classWrapHeader
                  \o desc[last.id].m_declarations
                  \o desc[last.id].m_helperMethods
                  \o desc[last.id].m_functionHeader
                  \o desc[last.id].m_functionBody
                  \o desc[last.id].m_functionFooter
                  \o WrapperOf(desc[last.id]).m_classWrapFooter
    /\ \A id \in Ids :
           /\ OnlyFragments(desc[id].m_declarations) = ghost[id].appended.m_declarations
           /\ OnlyFragments(desc[id].m_helperMethods) = ghost[id].appended.m_helperMethods
           /\ desc[id].m_functionHeader = ghost[id].appended.m_functionHeader
           /\ desc[id].m_functionBody = ghost[id].appended.m_functionBody
           /\ OnlyFragments(desc[id].m_functionFooter) = ghost[id].appended.m_functionFooter

\* A Metal descriptor with declarations was finalized: the text holds the
\* wrapper header, the declarations and the wrapper footer.
C8_Witness ==
    /\ Returned("finalize")
    /\ desc[last.id].m_language = METAL
    /\ desc[last.id].m_declarations # <<>>
    /\ WrapperOf(desc[last.id]).m_classWrapHeader # <<>>
    /\ WrapperOf(desc[last.id]).m_classWrapFooter # <<>>
    /\ Len(GetShaderText(desc[last.id])) > Len(desc[last.id].m_declarations)

\* C9: no sequence of calls leaves the program declaration of the OSL
\* preamble, or the closing assignment to outColor, more than once in the
\* declarations, the function footer or the shader text.
C9_PreambleAtMostOnce ==
    \A id \in Ids :
        /\ Count(desc[id].m_declarations, "shader OSL_") <= 1
        /\ Count(desc[id].m_functionFooter, "outColor = ") <= 1
        /\ Count(desc[id].m_shaderCode, "shader OSL_") <= 1
        /\ Count(desc[id].m_shaderCode, "outColor = ") <= 1

\* C10: after finalize() of an OSL descriptor the shader text holds exactly
\* one program declaration, naming the function configured at that time, and
\* exactly one closing assignment of that function's result to outColor.
C10_OneProgramDeclaration ==
    (Returned("finalize") /\ desc[last.id].m_language = OSL)
        => /\ Count(GetShaderText(desc[last.id]), "shader OSL_") = 1
           /\ Count(GetShaderText(desc[last.id]), "outColor = ") = 1
           /\ Contains(GetShaderText(desc[last.id]),
                       <<"shader OSL_">> \o desc[last.id].m_functionName)
           /\ Contains(GetShaderText(desc[last.id]),
                       <<"outColor = ">> \o desc[last.id].m_functionName \o <<"(inColor);">>)

\* The entries one texture contributes to the wrapper's parameter list.
TextureParamPair(type, name) ==
    <<[type |-> type, name |-> name], [type |-> "sampler", name |-> name \o "Sampler"]>>

\* The texture and sampler entries of the registered textures: the 3D
\* textures, then the ordinary ones, each group in registration order.
RECURSIVE TextureParamPairs(_, _)
TextureParamPairs(textures3D, textures) ==
    IF textures3D # <<>>
    THEN TextureParamPair("texture3d<float>", Head(textures3D))
            \o TextureParamPairs(Tail(textures3D), textures)
    ELSE IF textures # <<>>
    THEN TextureParamPair(IF Head(textures).height > 1 THEN "texture2d<float>"
                                                       ELSE "texture1d<float>",
                          Head(textures).name)
            \o TextureParamPairs(textures3D, Tail(textures))
    ELSE <<>>

\* C11: after finalize() of a Metal descriptor the wrapper's parameter list
\* is one texture entry followed by its sampler entry for every registered
\* texture, the 3D textures first, 2*(n3+n2) entries in all, and
\* getShaderText() holds the class-wrapper header banner once and the footer
\* banner once.
C11_MetalParameterList ==
    (Returned("finalize") /\ desc[last.id].m_language = METAL)
        => /\ WrapperOf(desc[last.id]).m_classWrapFunctionParams
                = TextureParamPairs(desc[last.id].textures3D, desc[last.id].textures)
           /\ Len(WrapperOf(desc[last.id]).m_classWrapFunctionParams)
                = 2 * (Len(desc[last.id].textures3D) + Len(desc[last.id].textures))
           /\ Count(GetShaderText(desc[last.id]), WrapHeaderBanner[1]) = 1
           /\ Count(GetShaderText(desc[last.id]), WrapFooterBanner[1]) = 1

\* The text holds the banner once, and no fragment stands before it.
BannerOnceBeforeContent(text, banner) ==
    /\ Count(text, banner) = 1
    /\ \E i \in 1..Len(text) :
           /\ text[i] = banner
           /\ \A j \in 1..(i - 1) : text[j] \notin {"x", "y"}

\* C12: once addToDeclareShaderCode (addToHelperShaderCode) has been called
\* on a descriptor, with any argument and after any other calls, the
\* declarations (the helper methods) hold their banner exactly once, before
\* the first fragment.
C12_BannerOnce ==
    /\ Returned("addToDeclareShaderCode")
         => BannerOnceBeforeContent(desc[last.id].m_declarations, DeclareBanner[1])
    /\ Returned("addToHelperShaderCode")
         => BannerOnceBeforeContent(desc[last.id].m_helperMethods, HelperBanner[1])
    /\ \A id \in Ids :
           /\ ghost[id].appended.m_declarations # <<>>
                => BannerOnceBeforeContent(desc[id].m_declarations, DeclareBanner[1])
           /\ ghost[id].appended.m_helperMethods # <<>>
                => BannerOnceBeforeContent(desc[id].m_helperMethods, HelperBanner[1])

\* C13: a setLanguage(lang) that returns has stored lang and freed the
\* wrapper the descriptor held; for Metal the descriptor then holds a fresh
\* wrapper with no parameters, header or footer and its function name is
\* "Display"; for any other language it holds no wrapper and its function
\* name is the one it had.  So a wrapper is held exactly when the language
\* is Metal.
C13_SetLanguage ==
    [][(last'.op = "setLanguage" /\ nOps' = nOps + 1 /\ last'.ret.ok)
          => /\ desc'[last'.id].m_language = last'.arg
             /\ desc[last'.id].m_classWrappingInterface # 0
                  => ~heap'[desc[last'.id].m_classWrappingInterface].live
             /\ IF last'.arg = METAL
                THEN /\ desc'[last'.id].m_functionName = <<"Display">>
                     /\ desc'[last'.id].m_classWrappingInterface # 0
                     /\ heap'[desc'[last'.id].m_classWrappingInterface] = NewWrapper
                ELSE /\ desc'[last'.id].m_functionName = desc[last'.id].m_functionName
                     /\ desc'[last'.id].m_classWrappingInterface = 0]_vars

\* The members clone() is to carry over: the configuration and the buffers.
ClonedMembers(impl) ==
    <<impl.m_uid, impl.m_language, impl.m_functionName, impl.m_resourcePrefix,
      impl.m_pixelName, impl.m_numResources, impl.m_declarations,
      impl.m_helperMethods, impl.m_functionHeader, impl.m_functionBody,
      impl.m_functionFooter>>

\* The string the next getCacheID() of an Impl returns.
IdentityOf(impl) ==
    IF impl.m_cacheID = <<>> THEN ComposeCacheID(impl) ELSE impl.m_cacheID

\* C14: clone() makes a descriptor with the configuration and the five
\* buffers of the original, an empty shader text, and an identity without
\* the content id of the original; and a call on one descriptor leaves the
\* other descriptor as it was.
C14_CloneIsIndependent ==
    [][/\ (last'.op = "clone" /\ nOps' = nOps + 1)
            => /\ ClonedMembers(desc'[last'.ret.val]) = ClonedMembers(desc[last'.id])
               /\ GetShaderText(desc'[last'.ret.val]) = <<>>
               /\ desc'[last'.ret.val].m_shaderCodeID = <<>>
               /\ desc[last'.id].m_shaderCodeID # <<>>
                    => ~Contains(IdentityOf(desc'[last'.ret.val]),
                                 desc[last'.id].m_shaderCodeID)
               /\ desc'[last'.id] = desc[last'.id]
       /\ (last'.op # "clone" /\ nOps' = nOps + 1)
            => \A id \in Ids \ {last'.id} : desc'[id] = desc[id]]_vars

\* The five buffers of the Impl are empty.
BuffersEmpty(impl) ==
    /\ impl.m_declarations = <<>>
    /\ impl.m_helperMethods = <<>>
    /\ impl.m_functionHeader = <<>>
    /\ impl.m_functionBody = <<>>
    /\ impl.m_functionFooter = <<>>

\* C15: in every language, a finalize() that begins with the five buffers
\* empty leaves an empty shader text and, as content id, the hash of the
\* empty text.
C15_EmptyBuffersEmptyText ==
    [][(last'.op = "finalize" /\ nOps' = nOps + 1 /\ last'.ret.ok
          /\ BuffersEmpty(desc[last'.id]))
          => /\ GetShaderText(desc'[last'.id]) = <<>>
             /\ desc'[last'.id].m_shaderCodeID = CacheIDHash(<<>>)]_vars

\* C15 as the code has it: a finalize() that begins with the five buffers
\* empty leaves, for a language without a pre-pass, an empty shader text and
\* the hash of the empty text as content id; for OSL the text is the
\* generated preamble and closing lines; for Metal it is the header and the
\* footer of the class wrapper, which hold the two banners when the
\* descriptor has a wrapper; the content id is always the hash of the text.
C15_EmptyBuffersByLanguage ==
    [][(last'.op = "finalize" /\ nOps' = nOps + 1 /\ last'.ret.ok
          /\ BuffersEmpty(desc[last'.id]))
          => LET impl == desc'[last'.id]
                 w == IF impl.m_classWrappingInterface # 0
                      THEN heap'[impl.m_classWrappingInterface]
                      ELSE NewWrapper
             IN  /\ impl.m_shaderCodeID = CacheIDHash(GetShaderText(impl))
                 /\ impl.m_language \notin {OSL, METAL}
                      => /\ GetShaderText(impl) = <<>>
                         /\ impl.m_shaderCodeID = CacheIDHash(<<>>)
                 /\ impl.m_language = OSL
                      => GetShaderText(impl) = OslPreamble(impl.m_functionName)
                                                 \o OslFooter(impl.m_functionName)
                 /\ impl.m_language = METAL
                      => /\ GetShaderText(impl) = w.m_classWrapHeader \o w.m_classWrapFooter
                         /\ impl.m_classWrappingInterface # 0
                              => /\ Count(GetShaderText(impl), WrapHeaderBanner[1]) = 1
                                 /\ Count(GetShaderText(impl), WrapFooterBanner[1]) = 1]_vars

\* A GLSL descriptor with empty buffers was finalized: its text is empty and
\* its content id is the hash of the empty text.
C15_Witness ==
    /\ Returned("finalize")
    /\ desc[last.id].m_language = GLSL
    /\ BuffersEmpty(desc[last.id])
    /\ GetShaderText(desc[last.id]) = <<>>
    /\ desc[last.id].m_shaderCodeID = CacheIDHash(<<>>)
    /\ desc[last.id].m_shaderCodeID # <<>>

\* C18: whenever finalize() is called on a descriptor whose language is
\* Metal, the descriptor's wrapper pointer is not null and names a wrapper
\* that has not been freed.
C18_MetalFinalizeHasWrapper ==
    [][(last'.op = "finalize" /\ nOps' = nOps + 1
          /\ desc[last'.id].m_language = METAL)
          => /\ desc[last'.id].m_classWrappingInterface # 0
             /\ heap[desc[last'.id].m_classWrappingInterface].live]_vars

\* C19: setLanguage and the destructor never delete a wrapper that was
\* already freed, every wrapper that is not freed is the one a live
\* descriptor points to, and a destroyed descriptor leaves no wrapper
\* allocated.
C19_WrapperFreedOnce ==
    [][/\ (last'.op \in {"setLanguage", "destroy"} /\ nOps' = nOps + 1
             /\ desc[last'.id].m_classWrappingInterface # 0)
            => heap[desc[last'.id].m_classWrappingInterface].live
       /\ \A w \in 1..Len(heap') :
              heap'[w].live
                => \E id \in Ids : /\ phase'[id] = "live"
                                   /\ desc'[id].m_classWrappingInterface = w]_vars

\* C20: a descriptor that has not been finalized since it was constructed or
\* cloned has an empty shader text and an empty content id; any other has
\* the hash of its shader text as content id; and no call other than
\* finalize() and clone() changes the shader text or the content id of a
\* descriptor.
C20_ContentIdMatchesText ==
    [][/\ \A id \in Ids :
              IF ghost'[id].nFinalize = 0
              THEN /\ GetShaderText(desc'[id]) = <<>>
                   /\ desc'[id].m_shaderCodeID = <<>>
              ELSE desc'[id].m_shaderCodeID = CacheIDHash(GetShaderText(desc'[id]))
       /\ last'.op \notin {"finalize", "clone"}
            => \A id \in Ids :
                   /\ GetShaderText(desc'[id]) = GetShaderText(desc[id])
                   /\ desc'[id].m_shaderCodeID = desc[id].m_shaderCodeID]_vars

\* A descriptor with a fragment was finalized and then changed by another
\* call: its text and content id are those finalize() left.
C20_Witness ==
    /\ last.op \in InvalidatingOps \cup {"addToFunctionShaderCode", "getNextResourceIndex",
                                         "addDynamicProperty", "getCacheID"}
    /\ last.op # "finalize"
    /\ last.ret.ok
    /\ ghost[last.id].nFinalize = 1
    /\ GetShaderText(desc[last.id]) # <<>>
    /\ desc[last.id].m_shaderCodeID = CacheIDHash(GetShaderText(desc[last.id]))

\* C16: every read and every write of a descriptor's m_cacheID is made by a
\* thread that holds the descriptor's m_cacheIDMutex, in getCacheID, in the
\* setters, in createShaderText and in the copy made by clone().
C16_CacheIDUnderMutex ==
    access.member = "m_cacheID" => access.locked

\* C17: a getCacheID() that runs while other threads call getCacheID() and
\* the writer calls setters returns the identity of the configuration as
\* the last completed mutator left it, never that of a half-applied setter;
\* and two readers that return with no mutator completed in between return
\* the same string.
C17_IdentityOfWholeConfiguration ==
    /\ \A t \in Readers :
           (threads[t].op = "getCacheID" /\ threads[t].pc = "unlock")
             => /\ threads[t].ret = ComposeCacheID(committed.impl)
                /\ threads[t].at = committed.n
    /\ \A t1, t2 \in Readers :
           (threads[t1].ret # <<>> /\ threads[t2].ret # <<>>
              /\ threads[t1].at = threads[t2].at)
             => threads[t1].ret = threads[t2].ret

\* Both readers have returned the identity of the Metal configuration that
\* a setLanguage of the writer left: the language and the name "Display".
C17_Witness ==
    /\ threads["reader1"].op = "getCacheID"
    /\ threads["reader1"].pc = "unlock"
    /\ threads["reader1"].ret = threads["reader2"].ret
    /\ threads["reader1"].at = 1
    /\ threads["reader2"].at = 1
    /\ Contains(threads["reader1"].ret, <<"msl_2", " ", "Display", " ">>)

====
